---- MODULE Spec2Model ----
(***************************************************************************)
(* Model of the expense-tracking bot in src/main.py: the expense parser    *)
(* (parse_expense), the period resolver (get_period_bounds), the handlers  *)
(* (start, help_cmd, add_expense, stats) and the expenses table they use.  *)
(*                                                                         *)
(* Text is a sequence of Unicode code points (a Python str), so that       *)
(* strip, split, replace, lower and float act on characters.               *)
(***************************************************************************)
EXTENDS Integers, Sequences, FiniteSets, TLC

VARIABLES
    pc,        \* "boot" before main() has run init_db, "polling" after
    tableExists, \* whether the expenses table exists in the database
    expenses,  \* the rows of the expenses table, in insertion order
    nextId,    \* the next value of the SERIAL sequence of expenses.id
    senders,   \* history: senders[i] sent the message that created expenses[i]
    now,       \* the current instant (UTC), read by datetime.now and by NOW()
    out,       \* the event just handled and what its handler did: replies, exception, result
    input,     \* argument of a pure function under test
    output     \* its result

vars == <<pc, tableExists, expenses, nextId, senders, now, out, input, output>>

---------------------------------------------------------------------------
(* Bounds of the model. *)

\* longest text given to parse_expense on its own
MaxLen == 5
\* most rows the expenses table holds
MaxRecords == 2
\* the clock runs from Epoch for this many days
MaxTick == 1
\* get_period_bounds on its own: now ranges over NumYears years from FirstYear
FirstYear == 2023
NumYears == 2

---------------------------------------------------------------------------
(* Characters and Python's str methods. *)

\* the least and the greatest of a set of integers
SetMin(S) == CHOOSE x \in S : \A y \in S : x <= y
SetMax(S) == CHOOSE x \in S : \A y \in S : x >= y

Comma == 44
Dot == 46
Space == 32

\* str.isspace: the whitespace str.strip() and str.split() cut at
IsSpace(c) ==
    c \in ({9, 10, 11, 12, 13, 28, 29, 30, 31, 32, 133, 160, 5760}
           \cup (8192..8202) \cup {8232, 8233, 8239, 8287, 12288})

\* The decimal digits float() reads are the code points of category Nd: runs
\* of ten, "0" to "9" and the runs that begin at these zeros.
DigitZeros ==
    {
      1632, 1776, 1984, 2406, 2534, 2662, 2790, 2918, 3046, 3174,
      3302, 3430, 3558, 3664, 3792, 3872, 4160, 4240, 6112, 6160,
      6470, 6608, 6784, 6800, 6992, 7088, 7232, 7248, 42528, 43216,
      43264, 43472, 43504, 43600, 44016, 65296, 66720, 68912, 69734, 69872,
      69942, 70096, 70384, 70736, 70864, 71248, 71360, 71472, 71904, 72016,
      72784, 73040, 73120, 92768, 92864, 93008, 120782, 120792, 120802, 120812,
      120822, 123200, 123632, 125264, 130032 }

IsDigit(c) == c \in 48..57 \/ (c >= 1632 /\ \E z \in DigitZeros : c \in z..(z + 9))

\* the value of a decimal digit
DigitValue(c) == IF c <= 57 THEN c - 48 ELSE c - (CHOOSE z \in DigitZeros : c \in z..(z + 9))

\* str.lower, one code point at a time.  Outside Basic Latin and the basic
\* Cyrillic block the simple lower-case mappings are runs <<first, last,
\* step, delta>>: first, first + step, ... last each map to themselves + delta.
LowerRuns ==
    {
      <<192, 214, 1, 32>>, <<216, 222, 1, 32>>, <<256, 302, 2, 1>>, <<306, 310, 2, 1>>, <<313, 327, 2, 1>>,
      <<330, 374, 2, 1>>, <<376, 376, 1, -121>>, <<377, 381, 2, 1>>, <<385, 385, 1, 210>>, <<386, 388, 2, 1>>,
      <<390, 390, 1, 206>>, <<391, 391, 1, 1>>, <<393, 394, 1, 205>>, <<395, 395, 1, 1>>, <<398, 398, 1, 79>>,
      <<399, 399, 1, 202>>, <<400, 400, 1, 203>>, <<401, 401, 1, 1>>, <<403, 403, 1, 205>>, <<404, 404, 1, 207>>,
      <<406, 406, 1, 211>>, <<407, 407, 1, 209>>, <<408, 408, 1, 1>>, <<412, 412, 1, 211>>, <<413, 413, 1, 213>>,
      <<415, 415, 1, 214>>, <<416, 420, 2, 1>>, <<422, 422, 1, 218>>, <<423, 423, 1, 1>>, <<425, 425, 1, 218>>,
      <<428, 428, 1, 1>>, <<430, 430, 1, 218>>, <<431, 431, 1, 1>>, <<433, 434, 1, 217>>, <<435, 437, 2, 1>>,
      <<439, 439, 1, 219>>, <<440, 440, 1, 1>>, <<444, 444, 1, 1>>, <<452, 452, 1, 2>>, <<453, 453, 1, 1>>,
      <<455, 455, 1, 2>>, <<456, 456, 1, 1>>, <<458, 458, 1, 2>>, <<459, 475, 2, 1>>, <<478, 494, 2, 1>>,
      <<497, 497, 1, 2>>, <<498, 500, 2, 1>>, <<502, 502, 1, -97>>, <<503, 503, 1, -56>>, <<504, 542, 2, 1>>,
      <<544, 544, 1, -130>>, <<546, 562, 2, 1>>, <<570, 570, 1, 10795>>, <<571, 571, 1, 1>>, <<573, 573, 1, -163>>,
      <<574, 574, 1, 10792>>, <<577, 577, 1, 1>>, <<579, 579, 1, -195>>, <<580, 580, 1, 69>>, <<581, 581, 1, 71>>,
      <<582, 590, 2, 1>>, <<880, 882, 2, 1>>, <<886, 886, 1, 1>>, <<895, 895, 1, 116>>, <<902, 902, 1, 38>>,
      <<904, 906, 1, 37>>, <<908, 908, 1, 64>>, <<910, 911, 1, 63>>, <<913, 929, 1, 32>>, <<931, 939, 1, 32>>,
      <<975, 975, 1, 8>>, <<984, 1006, 2, 1>>, <<1012, 1012, 1, -60>>, <<1015, 1015, 1, 1>>, <<1017, 1017, 1, -7>>,
      <<1018, 1018, 1, 1>>, <<1021, 1023, 1, -130>>, <<1120, 1152, 2, 1>>, <<1162, 1214, 2, 1>>, <<1216, 1216, 1, 15>>,
      <<1217, 1229, 2, 1>>, <<1232, 1326, 2, 1>>, <<1329, 1366, 1, 48>>, <<4256, 4293, 1, 7264>>, <<4295, 4295, 1, 7264>>,
      <<4301, 4301, 1, 7264>>, <<5024, 5103, 1, 38864>>, <<5104, 5109, 1, 8>>, <<7312, 7354, 1, -3008>>, <<7357, 7359, 1, -3008>>,
      <<7680, 7828, 2, 1>>, <<7838, 7838, 1, -7615>>, <<7840, 7934, 2, 1>>, <<7944, 7951, 1, -8>>, <<7960, 7965, 1, -8>>,
      <<7976, 7983, 1, -8>>, <<7992, 7999, 1, -8>>, <<8008, 8013, 1, -8>>, <<8025, 8031, 2, -8>>, <<8040, 8047, 1, -8>>,
      <<8072, 8079, 1, -8>>, <<8088, 8095, 1, -8>>, <<8104, 8111, 1, -8>>, <<8120, 8121, 1, -8>>, <<8122, 8123, 1, -74>>,
      <<8124, 8124, 1, -9>>, <<8136, 8139, 1, -86>>, <<8140, 8140, 1, -9>>, <<8152, 8153, 1, -8>>, <<8154, 8155, 1, -100>>,
      <<8168, 8169, 1, -8>>, <<8170, 8171, 1, -112>>, <<8172, 8172, 1, -7>>, <<8184, 8185, 1, -128>>, <<8186, 8187, 1, -126>>,
      <<8188, 8188, 1, -9>>, <<8486, 8486, 1, -7517>>, <<8490, 8490, 1, -8383>>, <<8491, 8491, 1, -8262>>, <<8498, 8498, 1, 28>>,
      <<8544, 8559, 1, 16>>, <<8579, 8579, 1, 1>>, <<9398, 9423, 1, 26>>, <<11264, 11311, 1, 48>>, <<11360, 11360, 1, 1>>,
      <<11362, 11362, 1, -10743>>, <<11363, 11363, 1, -3814>>, <<11364, 11364, 1, -10727>>, <<11367, 11371, 2, 1>>, <<11373, 11373, 1, -10780>>,
      <<11374, 11374, 1, -10749>>, <<11375, 11375, 1, -10783>>, <<11376, 11376, 1, -10782>>, <<11378, 11378, 1, 1>>, <<11381, 11381, 1, 1>>,
      <<11390, 11391, 1, -10815>>, <<11392, 11490, 2, 1>>, <<11499, 11501, 2, 1>>, <<11506, 11506, 1, 1>>, <<42560, 42604, 2, 1>>,
      <<42624, 42650, 2, 1>>, <<42786, 42798, 2, 1>>, <<42802, 42862, 2, 1>>, <<42873, 42875, 2, 1>>, <<42877, 42877, 1, -35332>>,
      <<42878, 42886, 2, 1>>, <<42891, 42891, 1, 1>>, <<42893, 42893, 1, -42280>>, <<42896, 42898, 2, 1>>, <<42902, 42920, 2, 1>>,
      <<42922, 42922, 1, -42308>>, <<42923, 42923, 1, -42319>>, <<42924, 42924, 1, -42315>>, <<42925, 42925, 1, -42305>>, <<42926, 42926, 1, -42308>>,
      <<42928, 42928, 1, -42258>>, <<42929, 42929, 1, -42282>>, <<42930, 42930, 1, -42261>>, <<42931, 42931, 1, 928>>, <<42932, 42946, 2, 1>>,
      <<42948, 42948, 1, -48>>, <<42949, 42949, 1, -42307>>, <<42950, 42950, 1, -35384>>, <<42951, 42953, 2, 1>>, <<42960, 42960, 1, 1>>,
      <<42966, 42968, 2, 1>>, <<42997, 42997, 1, 1>>, <<65313, 65338, 1, 32>>, <<66560, 66599, 1, 40>>, <<66736, 66771, 1, 40>>,
      <<66928, 66938, 1, 39>>, <<66940, 66954, 1, 39>>, <<66956, 66962, 1, 39>>, <<66964, 66965, 1, 39>>, <<68736, 68786, 1, 64>>,
      <<71840, 71871, 1, 32>>, <<93760, 93791, 1, 32>>, <<125184, 125217, 1, 34>> }

LowerCode(c) ==
    IF c < 192 THEN (IF c \in 65..90 THEN c + 32 ELSE c)
    ELSE IF c \in 1024..1119
    THEN (IF c < 1040 THEN c + 80 ELSE IF c < 1072 THEN c + 32 ELSE c)
    ELSE IF \E r \in LowerRuns : c \in r[1]..r[2] /\ (c - r[1]) % r[3] = 0
    THEN c + (CHOOSE r \in LowerRuns : c \in r[1]..r[2] /\ (c - r[1]) % r[3] = 0)[4]
    ELSE c

\* The code points that are cased and not case-ignorable, and those that are
\* case-ignorable, as ranges <<first, last>>: "SIGMA" (U+03A3) lower-cases by
\* what stands around it.
CasedRanges ==
    {
      <<65, 90>>, <<97, 122>>, <<170, 170>>, <<181, 181>>, <<186, 186>>, <<192, 214>>,
      <<216, 246>>, <<248, 442>>, <<444, 447>>, <<452, 659>>, <<661, 687>>, <<880, 883>>,
      <<886, 887>>, <<891, 893>>, <<895, 895>>, <<902, 902>>, <<904, 906>>, <<908, 908>>,
      <<910, 929>>, <<931, 1013>>, <<1015, 1153>>, <<1162, 1327>>, <<1329, 1366>>, <<1376, 1416>>,
      <<4256, 4293>>, <<4295, 4295>>, <<4301, 4301>>, <<4304, 4346>>, <<4349, 4351>>, <<5024, 5109>>,
      <<5112, 5117>>, <<7296, 7304>>, <<7312, 7354>>, <<7357, 7359>>, <<7424, 7467>>, <<7531, 7543>>,
      <<7545, 7578>>, <<7680, 7957>>, <<7960, 7965>>, <<7968, 8005>>, <<8008, 8013>>, <<8016, 8023>>,
      <<8025, 8025>>, <<8027, 8027>>, <<8029, 8029>>, <<8031, 8061>>, <<8064, 8116>>, <<8118, 8124>>,
      <<8126, 8126>>, <<8130, 8132>>, <<8134, 8140>>, <<8144, 8147>>, <<8150, 8155>>, <<8160, 8172>>,
      <<8178, 8180>>, <<8182, 8188>>, <<8450, 8450>>, <<8455, 8455>>, <<8458, 8467>>, <<8469, 8469>>,
      <<8473, 8477>>, <<8484, 8484>>, <<8486, 8486>>, <<8488, 8488>>, <<8490, 8493>>, <<8495, 8500>>,
      <<8505, 8505>>, <<8508, 8511>>, <<8517, 8521>>, <<8526, 8526>>, <<8544, 8575>>, <<8579, 8580>>,
      <<9398, 9449>>, <<11264, 11387>>, <<11390, 11492>>, <<11499, 11502>>, <<11506, 11507>>, <<11520, 11557>>,
      <<11559, 11559>>, <<11565, 11565>>, <<42560, 42605>>, <<42624, 42651>>, <<42786, 42863>>, <<42865, 42887>>,
      <<42891, 42894>>, <<42896, 42954>>, <<42960, 42961>>, <<42963, 42963>>, <<42965, 42969>>, <<42997, 42998>>,
      <<43002, 43002>>, <<43824, 43866>>, <<43872, 43880>>, <<43888, 43967>>, <<64256, 64262>>, <<64275, 64279>>,
      <<65313, 65338>>, <<65345, 65370>>, <<66560, 66639>>, <<66736, 66771>>, <<66776, 66811>>, <<66928, 66938>>,
      <<66940, 66954>>, <<66956, 66962>>, <<66964, 66965>>, <<66967, 66977>>, <<66979, 66993>>, <<66995, 67001>>,
      <<67003, 67004>>, <<68736, 68786>>, <<68800, 68850>>, <<71840, 71903>>, <<93760, 93823>>, <<119808, 119892>>,
      <<119894, 119964>>, <<119966, 119967>>, <<119970, 119970>>, <<119973, 119974>>, <<119977, 119980>>, <<119982, 119993>>,
      <<119995, 119995>>, <<119997, 120003>>, <<120005, 120069>>, <<120071, 120074>>, <<120077, 120084>>, <<120086, 120092>>,
      <<120094, 120121>>, <<120123, 120126>>, <<120128, 120132>>, <<120134, 120134>>, <<120138, 120144>>, <<120146, 120485>>,
      <<120488, 120512>>, <<120514, 120538>>, <<120540, 120570>>, <<120572, 120596>>, <<120598, 120628>>, <<120630, 120654>>,
      <<120656, 120686>>, <<120688, 120712>>, <<120714, 120744>>, <<120746, 120770>>, <<120772, 120779>>, <<122624, 122633>>,
      <<122635, 122654>>, <<125184, 125251>>, <<127280, 127305>>, <<127312, 127337>>, <<127344, 127369>> }

CaseIgnorableRanges ==
    {
      <<39, 39>>, <<46, 46>>, <<58, 58>>, <<94, 94>>, <<96, 96>>, <<168, 168>>,
      <<173, 173>>, <<175, 175>>, <<180, 180>>, <<183, 184>>, <<688, 879>>, <<884, 885>>,
      <<890, 890>>, <<900, 901>>, <<903, 903>>, <<1155, 1161>>, <<1369, 1369>>, <<1375, 1375>>,
      <<1425, 1469>>, <<1471, 1471>>, <<1473, 1474>>, <<1476, 1477>>, <<1479, 1479>>, <<1524, 1524>>,
      <<1536, 1541>>, <<1552, 1562>>, <<1564, 1564>>, <<1600, 1600>>, <<1611, 1631>>, <<1648, 1648>>,
      <<1750, 1757>>, <<1759, 1768>>, <<1770, 1773>>, <<1807, 1807>>, <<1809, 1809>>, <<1840, 1866>>,
      <<1958, 1968>>, <<2027, 2037>>, <<2042, 2042>>, <<2045, 2045>>, <<2070, 2093>>, <<2137, 2139>>,
      <<2184, 2184>>, <<2192, 2193>>, <<2200, 2207>>, <<2249, 2306>>, <<2362, 2362>>, <<2364, 2364>>,
      <<2369, 2376>>, <<2381, 2381>>, <<2385, 2391>>, <<2402, 2403>>, <<2417, 2417>>, <<2433, 2433>>,
      <<2492, 2492>>, <<2497, 2500>>, <<2509, 2509>>, <<2530, 2531>>, <<2558, 2558>>, <<2561, 2562>>,
      <<2620, 2620>>, <<2625, 2626>>, <<2631, 2632>>, <<2635, 2637>>, <<2641, 2641>>, <<2672, 2673>>,
      <<2677, 2677>>, <<2689, 2690>>, <<2748, 2748>>, <<2753, 2757>>, <<2759, 2760>>, <<2765, 2765>>,
      <<2786, 2787>>, <<2810, 2815>>, <<2817, 2817>>, <<2876, 2876>>, <<2879, 2879>>, <<2881, 2884>>,
      <<2893, 2893>>, <<2901, 2902>>, <<2914, 2915>>, <<2946, 2946>>, <<3008, 3008>>, <<3021, 3021>>,
      <<3072, 3072>>, <<3076, 3076>>, <<3132, 3132>>, <<3134, 3136>>, <<3142, 3144>>, <<3146, 3149>>,
      <<3157, 3158>>, <<3170, 3171>>, <<3201, 3201>>, <<3260, 3260>>, <<3263, 3263>>, <<3270, 3270>>,
      <<3276, 3277>>, <<3298, 3299>>, <<3328, 3329>>, <<3387, 3388>>, <<3393, 3396>>, <<3405, 3405>>,
      <<3426, 3427>>, <<3457, 3457>>, <<3530, 3530>>, <<3538, 3540>>, <<3542, 3542>>, <<3633, 3633>>,
      <<3636, 3642>>, <<3654, 3662>>, <<3761, 3761>>, <<3764, 3772>>, <<3782, 3782>>, <<3784, 3789>>,
      <<3864, 3865>>, <<3893, 3893>>, <<3895, 3895>>, <<3897, 3897>>, <<3953, 3966>>, <<3968, 3972>>,
      <<3974, 3975>>, <<3981, 3991>>, <<3993, 4028>>, <<4038, 4038>>, <<4141, 4144>>, <<4146, 4151>>,
      <<4153, 4154>>, <<4157, 4158>>, <<4184, 4185>>, <<4190, 4192>>, <<4209, 4212>>, <<4226, 4226>>,
      <<4229, 4230>>, <<4237, 4237>>, <<4253, 4253>>, <<4348, 4348>>, <<4957, 4959>>, <<5906, 5908>>,
      <<5938, 5939>>, <<5970, 5971>>, <<6002, 6003>>, <<6068, 6069>>, <<6071, 6077>>, <<6086, 6086>>,
      <<6089, 6099>>, <<6103, 6103>>, <<6109, 6109>>, <<6155, 6159>>, <<6211, 6211>>, <<6277, 6278>>,
      <<6313, 6313>>, <<6432, 6434>>, <<6439, 6440>>, <<6450, 6450>>, <<6457, 6459>>, <<6679, 6680>>,
      <<6683, 6683>>, <<6742, 6742>>, <<6744, 6750>>, <<6752, 6752>>, <<6754, 6754>>, <<6757, 6764>>,
      <<6771, 6780>>, <<6783, 6783>>, <<6823, 6823>>, <<6832, 6862>>, <<6912, 6915>>, <<6964, 6964>>,
      <<6966, 6970>>, <<6972, 6972>>, <<6978, 6978>>, <<7019, 7027>>, <<7040, 7041>>, <<7074, 7077>>,
      <<7080, 7081>>, <<7083, 7085>>, <<7142, 7142>>, <<7144, 7145>>, <<7149, 7149>>, <<7151, 7153>>,
      <<7212, 7219>>, <<7222, 7223>>, <<7288, 7293>>, <<7376, 7378>>, <<7380, 7392>>, <<7394, 7400>>,
      <<7405, 7405>>, <<7412, 7412>>, <<7416, 7417>>, <<7468, 7530>>, <<7544, 7544>>, <<7579, 7679>>,
      <<8125, 8125>>, <<8127, 8129>>, <<8141, 8143>>, <<8157, 8159>>, <<8173, 8175>>, <<8189, 8190>>,
      <<8203, 8207>>, <<8216, 8217>>, <<8228, 8228>>, <<8231, 8231>>, <<8234, 8238>>, <<8288, 8292>>,
      <<8294, 8303>>, <<8305, 8305>>, <<8319, 8319>>, <<8336, 8348>>, <<8400, 8432>>, <<11388, 11389>>,
      <<11503, 11505>>, <<11631, 11631>>, <<11647, 11647>>, <<11744, 11775>>, <<11823, 11823>>, <<12293, 12293>>,
      <<12330, 12333>>, <<12337, 12341>>, <<12347, 12347>>, <<12441, 12446>>, <<12540, 12542>>, <<40981, 40981>>,
      <<42232, 42237>>, <<42508, 42508>>, <<42607, 42610>>, <<42612, 42621>>, <<42623, 42623>>, <<42652, 42655>>,
      <<42736, 42737>>, <<42752, 42785>>, <<42864, 42864>>, <<42888, 42890>>, <<42994, 42996>>, <<43000, 43001>>,
      <<43010, 43010>>, <<43014, 43014>>, <<43019, 43019>>, <<43045, 43046>>, <<43052, 43052>>, <<43204, 43205>>,
      <<43232, 43249>>, <<43263, 43263>>, <<43302, 43309>>, <<43335, 43345>>, <<43392, 43394>>, <<43443, 43443>>,
      <<43446, 43449>>, <<43452, 43453>>, <<43471, 43471>>, <<43493, 43494>>, <<43561, 43566>>, <<43569, 43570>>,
      <<43573, 43574>>, <<43587, 43587>>, <<43596, 43596>>, <<43632, 43632>>, <<43644, 43644>>, <<43696, 43696>>,
      <<43698, 43700>>, <<43703, 43704>>, <<43710, 43711>>, <<43713, 43713>>, <<43741, 43741>>, <<43756, 43757>>,
      <<43763, 43764>>, <<43766, 43766>>, <<43867, 43871>>, <<43881, 43883>>, <<44005, 44005>>, <<44008, 44008>>,
      <<44013, 44013>>, <<64286, 64286>>, <<64434, 64450>>, <<65024, 65039>>, <<65043, 65043>>, <<65056, 65071>>,
      <<65106, 65106>>, <<65109, 65109>>, <<65279, 65279>>, <<65287, 65287>>, <<65294, 65294>>, <<65306, 65306>>,
      <<65342, 65342>>, <<65344, 65344>>, <<65392, 65392>>, <<65438, 65439>>, <<65507, 65507>>, <<65529, 65531>>,
      <<66045, 66045>>, <<66272, 66272>>, <<66422, 66426>>, <<67456, 67461>>, <<67463, 67504>>, <<67506, 67514>>,
      <<68097, 68099>>, <<68101, 68102>>, <<68108, 68111>>, <<68152, 68154>>, <<68159, 68159>>, <<68325, 68326>>,
      <<68900, 68903>>, <<69291, 69292>>, <<69446, 69456>>, <<69506, 69509>>, <<69633, 69633>>, <<69688, 69702>>,
      <<69744, 69744>>, <<69747, 69748>>, <<69759, 69761>>, <<69811, 69814>>, <<69817, 69818>>, <<69821, 69821>>,
      <<69826, 69826>>, <<69837, 69837>>, <<69888, 69890>>, <<69927, 69931>>, <<69933, 69940>>, <<70003, 70003>>,
      <<70016, 70017>>, <<70070, 70078>>, <<70089, 70092>>, <<70095, 70095>>, <<70191, 70193>>, <<70196, 70196>>,
      <<70198, 70199>>, <<70206, 70206>>, <<70367, 70367>>, <<70371, 70378>>, <<70400, 70401>>, <<70459, 70460>>,
      <<70464, 70464>>, <<70502, 70508>>, <<70512, 70516>>, <<70712, 70719>>, <<70722, 70724>>, <<70726, 70726>>,
      <<70750, 70750>>, <<70835, 70840>>, <<70842, 70842>>, <<70847, 70848>>, <<70850, 70851>>, <<71090, 71093>>,
      <<71100, 71101>>, <<71103, 71104>>, <<71132, 71133>>, <<71219, 71226>>, <<71229, 71229>>, <<71231, 71232>>,
      <<71339, 71339>>, <<71341, 71341>>, <<71344, 71349>>, <<71351, 71351>>, <<71453, 71455>>, <<71458, 71461>>,
      <<71463, 71467>>, <<71727, 71735>>, <<71737, 71738>>, <<71995, 71996>>, <<71998, 71998>>, <<72003, 72003>>,
      <<72148, 72151>>, <<72154, 72155>>, <<72160, 72160>>, <<72193, 72202>>, <<72243, 72248>>, <<72251, 72254>>,
      <<72263, 72263>>, <<72273, 72278>>, <<72281, 72283>>, <<72330, 72342>>, <<72344, 72345>>, <<72752, 72758>>,
      <<72760, 72765>>, <<72767, 72767>>, <<72850, 72871>>, <<72874, 72880>>, <<72882, 72883>>, <<72885, 72886>>,
      <<73009, 73014>>, <<73018, 73018>>, <<73020, 73021>>, <<73023, 73029>>, <<73031, 73031>>, <<73104, 73105>>,
      <<73109, 73109>>, <<73111, 73111>>, <<73459, 73460>>, <<78896, 78904>>, <<92912, 92916>>, <<92976, 92982>>,
      <<92992, 92995>>, <<94031, 94031>>, <<94095, 94111>>, <<94176, 94177>>, <<94179, 94180>>, <<110576, 110579>>,
      <<110581, 110587>>, <<110589, 110590>>, <<113821, 113822>>, <<113824, 113827>>, <<118528, 118573>>, <<118576, 118598>>,
      <<119143, 119145>>, <<119155, 119170>>, <<119173, 119179>>, <<119210, 119213>>, <<119362, 119364>>, <<121344, 121398>>,
      <<121403, 121452>>, <<121461, 121461>>, <<121476, 121476>>, <<121499, 121503>>, <<121505, 121519>>, <<122880, 122886>>,
      <<122888, 122904>>, <<122907, 122913>>, <<122915, 122916>>, <<122918, 122922>>, <<123184, 123197>>, <<123566, 123566>>,
      <<123628, 123631>>, <<125136, 125142>>, <<125252, 125259>>, <<127995, 127999>>, <<917505, 917505>>, <<917536, 917631>>,
      <<917760, 917999>> }

IsCased(c) == \E r \in CasedRanges : c \in r[1]..r[2]

IsCaseIgnorable(c) == \E r \in CaseIgnorableRanges : c \in r[1]..r[2]

\* the places before i, and after i, that hold no case-ignorable character
Before(s, i) == {j \in 1..(i - 1) : ~IsCaseIgnorable(s[j])}
After(s, i) == {j \in (i + 1)..Len(s) : ~IsCaseIgnorable(s[j])}

\* s[i] ends a word: the nearest such place before it holds a cased letter
\* and the nearest after it, if there is one, does not
FinalSigma(s, i) ==
    /\ Before(s, i) # {}
    /\ IsCased(s[SetMax(Before(s, i))])
    /\ (After(s, i) = {} \/ ~IsCased(s[SetMin(After(s, i))]))

\* the lower case of s[i]: U+0130 gives "i" and U+0307, U+03A3 gives the
\* final or the medial small sigma
LowerAt(s, i) ==
    IF s[i] = 304 THEN <<105, 775>>
    ELSE IF s[i] = 931 THEN (IF FinalSigma(s, i) THEN <<962>> ELSE <<963>>)
    ELSE <<LowerCode(s[i])>>

\* the lower case of s[lo..hi], one half after the other
RECURSIVE LowerRange(_, _, _)
LowerRange(s, lo, hi) ==
    IF lo = hi THEN LowerAt(s, lo)
    ELSE LowerRange(s, lo, (lo + hi) \div 2) \o LowerRange(s, (lo + hi) \div 2 + 1, hi)

\* str.lower
lower(s) ==
    IF \A i \in 1..Len(s) : s[i] \notin {304, 931}
    THEN [i \in 1..Len(s) |-> LowerCode(s[i])]
    ELSE LowerRange(s, 1, Len(s))

lstrip(s) ==
    IF \A i \in DOMAIN s : IsSpace(s[i]) THEN <<>>
    ELSE SubSeq(s, SetMin({i \in DOMAIN s : ~IsSpace(s[i])}), Len(s))

rstrip(s) ==
    IF \A i \in DOMAIN s : IsSpace(s[i]) THEN <<>>
    ELSE SubSeq(s, 1, SetMax({i \in DOMAIN s : ~IsSpace(s[i])}))

strip(s) == rstrip(lstrip(s))

\* length of the leading run of non-whitespace
WordLen(s) ==
    IF \A i \in DOMAIN s : ~IsSpace(s[i]) THEN Len(s)
    ELSE SetMin({i \in DOMAIN s : IsSpace(s[i])}) - 1

\* str.split(maxsplit=n) with no separator: whitespace runs separate the
\* words; after n splits the rest is one item, its leading whitespace dropped
RECURSIVE split(_, _)
split(s, maxsplit) ==
    LET t == lstrip(s) IN
    IF t = <<>> THEN <<>>
    ELSE IF maxsplit = 0 THEN <<t>>
    ELSE LET n == WordLen(t)
         IN <<SubSeq(t, 1, n)>> \o split(SubSeq(t, n + 1, Len(t)), maxsplit - 1)

\* str.replace(old, new) for one-character old and new
replace(s, old, new) == [i \in 1..Len(s) |-> IF s[i] = old THEN new ELSE s[i]]

\* " ".join(words)
RECURSIVE join(_)
join(words) ==
    IF words = <<>> THEN <<>>
    ELSE IF Len(words) = 1 THEN words[1]
    ELSE words[1] \o <<Space>> \o join(Tail(words))

---------------------------------------------------------------------------
(* Natural numbers of any size, as the sequence of their decimal digits,   *)
(* the most significant first and none for zero: a double has 53 binary    *)
(* digits and a NUMERIC(12,2) twelve decimal ones.                         *)

\* ds without its leading zeros
TrimZeros(ds) ==
    IF \A i \in DOMAIN ds : ds[i] = 0 THEN <<>>
    ELSE SubSeq(ds, SetMin({i \in DOMAIN ds : ds[i] # 0}), Len(ds))

RECURSIVE NatOfInt(_)
NatOfInt(n) == IF n = 0 THEN <<>> ELSE Append(NatOfInt(n \div 10), n % 10)

RECURSIVE IntOfNat(_)
IntOfNat(a) == IF a = <<>> THEN 0 ELSE 10 * IntOfNat(SubSeq(a, 1, Len(a) - 1)) + a[Len(a)]

Zeros(n) == [i \in 1..n |-> 0]

\* a with zeros before it, n digits in all
Pad(a, n) == Zeros(n - Len(a)) \o a

CmpAt(a, b, i) == IF a[i] < b[i] THEN 0 - 1 ELSE 1

\* -1, 0 or 1 as a is below, equal to or above b
NatCmp(a, b) ==
    IF Len(a) # Len(b) THEN (IF Len(a) < Len(b) THEN 0 - 1 ELSE 1)
    ELSE IF a = b THEN 0
    ELSE CmpAt(a, b, SetMin({i \in DOMAIN a : a[i] # b[i]}))

\* The digits lo..hi of a * k + b * j, for a and b of one length: the carry
\* comes in at the right and goes out at the left.  The right half is worked
\* before the left half, each half in the same way.
Glue(left, right) == [ds |-> left.ds \o right.ds, carry |-> left.carry]

RECURSIVE LinRange(_, _, _, _, _, _, _)
RECURSIVE LinLeft(_, _, _, _, _, _, _)
LinRange(a, k, b, j, lo, hi, carry) ==
    IF lo = hi
    THEN [ds |-> <<(a[lo] * k + b[lo] * j + carry) % 10>>,
          carry |-> (a[lo] * k + b[lo] * j + carry) \div 10]
    ELSE LinLeft(a, k, b, j, lo, (lo + hi) \div 2,
                 LinRange(a, k, b, j, (lo + hi) \div 2 + 1, hi, carry))

LinLeft(a, k, b, j, lo, mid, right) ==
    IF right.carry = 0 THEN Glue(LinRange(a, k, b, j, lo, mid, 0), right)
    ELSE Glue(LinRange(a, k, b, j, lo, mid, right.carry), right)

WithCarry(p) == TrimZeros(NatOfInt(p.carry) \o p.ds)

\* a * k + b * j, when that is not negative and k and j are at most 2^27
NatLin(a, k, b, j, n) ==
    IF n = 0 THEN <<>> ELSE WithCarry(LinRange(Pad(a, n), k, Pad(b, n), j, 1, n, 0))

NatAdd(a, b) == NatLin(a, 1, b, 1, IF Len(a) > Len(b) THEN Len(a) ELSE Len(b))

\* a - b, for a >= b
NatSub(a, b) == NatLin(a, 1, b, 0 - 1, Len(a))

NatMul(a, k) == NatLin(a, k, <<>>, 0, Len(a))

\* a * 2^n and a * 10^n; a itself for n <= 0
RECURSIVE TimesPow2(_, _)
TimesPow2(a, n) ==
    IF n <= 0 \/ a = <<>> THEN a
    ELSE IF n <= 27 THEN NatMul(a, 2^n)
    ELSE TimesPow2(TimesPow2(a, n \div 2), n - n \div 2)

TimesPow10(a, n) == IF n <= 0 \/ a = <<>> THEN a ELSE a \o Zeros(n)

\* Long division.  st: the quotient q so far and what is left, r, less than
\* den; one more digit of num gives one more digit t of the quotient, the
\* most times den goes into what is left.
DivTimes(den, q, rem, t) ==
    [q |-> TrimZeros(Append(q, t)), r |-> NatSub(rem, NatMul(den, t))]

DivDigit(den, q, rem) ==
    DivTimes(den, q, rem, SetMax({t \in 0..9 : NatCmp(NatMul(den, t), rem) <= 0}))

RECURSIVE DivRange(_, _, _, _, _)
DivRange(num, den, lo, hi, st) ==
    IF st.r = <<>> /\ lo = hi /\ num[lo] = 0
    THEN [q |-> TrimZeros(Append(st.q, 0)), r |-> <<>>]
    ELSE IF lo = hi THEN DivDigit(den, st.q, TrimZeros(Append(st.r, num[lo])))
    ELSE DivRange(num, den, (lo + hi) \div 2 + 1, hi,
                  DivRange(num, den, lo, (lo + hi) \div 2, st))

\* quotient q and remainder r of num by den, for num > 0 and a quotient of
\* at most n digits: the digits of num before the last n are less than den
NatDivMod(num, den, n) ==
    IF Len(num) > n
    THEN DivRange(num, den, Len(num) - n + 1, Len(num),
                  [q |-> <<>>, r |-> SubSeq(num, 1, Len(num) - n)])
    ELSE DivRange(num, den, 1, Len(num), [q |-> <<>>, r |-> <<>>])

---------------------------------------------------------------------------
(* float(str).  A float is nan, inf or a finite double.  A finite double   *)
(* is named by its repr: the shortest decimal m * 10^e that reads back as  *)
(* it, with sign neg; m is a digit sequence without leading or trailing    *)
(* zero, and zero is m = <<>>, e = 0 (0.0, and -0.0 with neg).             *)

ValueError == [err |-> TRUE]
NaN == [err |-> FALSE, kind |-> "nan"]
Inf(neg) == [err |-> FALSE, kind |-> "inf", neg |-> neg]

FiniteOf(neg, m, e, first, last) ==
    [err |-> FALSE, kind |-> "fin", neg |-> neg, m |-> SubSeq(m, first, last),
     e |-> e + Len(m) - last]

\* m * 10^e in normal form
Finite(neg, m, e) ==
    IF \A i \in DOMAIN m : m[i] = 0
    THEN [err |-> FALSE, kind |-> "fin", neg |-> neg, m |-> <<>>, e |-> 0]
    ELSE FiniteOf(neg, m, e, SetMin({i \in DOMAIN m : m[i] # 0}),
                  SetMax({i \in DOMAIN m : m[i] # 0}))

\* 2^52 and 2^53: a double is q * 2^E with q < 2^53, and q >= 2^52 unless
\* E = -1074 (a subnormal); the largest E is 971
Pow2_52 == <<4, 5, 0, 3, 5, 9, 9, 6, 2, 7, 3, 7, 0, 4, 9, 6>>
Pow2_53 == <<9, 0, 0, 7, 1, 9, 9, 2, 5, 4, 7, 4, 0, 9, 9, 2>>
MinExp == 0 - 1074
MaxExp == 971

\* repr, digit by digit.  x, l, u: the double and the two ends of the
\* interval of the numbers that round to it, each as the 18 leading digits
\* q of x's scale and the rest r; the ends belong to the interval when q of
\* the double is even.  The first n for which an n-digit decimal lies in the
\* interval gives the repr: the one nearer to x if there are two.
LowFits(head, n, l, even) ==
    \/ NatCmp(head \o Zeros(18 - n), l.q) > 0
    \/ (head \o Zeros(18 - n) = l.q /\ l.r = <<>> /\ even)

HighFits(head, n, u, even) ==
    \/ NatCmp(NatAdd(head, <<1>>) \o Zeros(18 - n), u.q) < 0
    \/ (NatAdd(head, <<1>>) \o Zeros(18 - n) = u.q /\ (u.r # <<>> \/ even))

LowIsNearer(head, rest, n, x) ==
    \/ NatCmp(rest, <<5>> \o Zeros(17 - n)) < 0
    \/ (rest = <<5>> \o Zeros(17 - n) /\ x.r = <<>> /\ head[n] % 2 = 0)

ShortestOf(neg, s, even, x, l, u, n) ==
    IF LowFits(SubSeq(x.q, 1, n), n, l, even)
       /\ (~HighFits(SubSeq(x.q, 1, n), n, u, even)
           \/ LowIsNearer(SubSeq(x.q, 1, n), SubSeq(x.q, n + 1, 18), n, x))
    THEN Finite(neg, SubSeq(x.q, 1, n), s + 18 - n)
    ELSE Finite(neg, NatAdd(SubSeq(x.q, 1, n), <<1>>), s + 18 - n)

ShortestDigits(neg, s, even, x, l, u) ==
    ShortestOf(neg, s, even, x, l, u,
               SetMin({n \in 1..17 : \/ LowFits(SubSeq(x.q, 1, n), n, l, even)
                                     \/ HighFits(SubSeq(x.q, 1, n), n, u, even)}))

\* v * 2^(E-2) in units of 10^s: the whole part q and the rest r
InUnits(v, E, s) ==
    NatDivMod(TimesPow10(TimesPow2(v, E - 2), 0 - s),
              TimesPow10(TimesPow2(<<1>>, 2 - E), s), 19)

\* the interval around q * 2^E reaches half way to the next double above;
\* below it reaches half way to the one before, which is half as far
\* when q = 2^52 (the doubles below are twice as dense)
ShortestAt(neg, q, E, s) ==
    ShortestDigits(neg, s, q[Len(q)] % 2 = 0,
                   InUnits(NatMul(q, 4), E, s),
                   InUnits(NatSub(NatMul(q, 4),
                                  IF q = Pow2_52 /\ E > MinExp THEN <<1>> ELSE <<2>>), E, s),
                   InUnits(NatAdd(NatMul(q, 4), <<2>>), E, s))

\* the least k >= c with num / den < 10^(k - c)
RECURSIVE DecimalExponent(_, _, _)
DecimalExponent(num, den, c) ==
    IF NatCmp(num, den) < 0 THEN c ELSE DecimalExponent(num, Append(den, 0), c + 1)

\* q * 2^E has k digits before the point, for the k found from c on
DecimalExponentFrom(q, E, c) ==
    DecimalExponent(TimesPow10(TimesPow2(q, E), 0 - c),
                    TimesPow10(TimesPow2(<<1>>, 0 - E), c), c)

Shortest(neg, q, E) ==
    ShortestAt(neg, q, E,
               DecimalExponentFrom(q, E, Len(q) + (E * 30103) \div 100000 - 2) - 18)

\* the double q * 2^E
Double(neg, q, E) ==
    IF q = <<>> THEN Finite(neg, <<>>, 0)
    ELSE IF q = Pow2_53 THEN (IF E + 1 > MaxExp THEN Inf(neg) ELSE Shortest(neg, Pow2_52, E + 1))
    ELSE IF E > MaxExp THEN Inf(neg)
    ELSE Shortest(neg, q, E)

\* round half to even: d, the whole part and the rest of v / 2^E; den, what
\* the rest is a fraction of
RoundHalfEven(neg, E, d, den) ==
    IF NatCmp(NatMul(d.r, 2), den) > 0
       \/ (NatMul(d.r, 2) = den /\ d.q # <<>> /\ d.q[Len(d.q)] % 2 = 1)
    THEN Double(neg, NatAdd(d.q, <<1>>), E)
    ELSE Double(neg, d.q, E)

Nearest(neg, num, den, E) ==
    RoundHalfEven(neg, E, NatDivMod(TimesPow2(num, 0 - E), TimesPow2(den, E), 17),
                  TimesPow2(den, E))

\* the greatest E <= c with num / den >= 2^(E - c), and MinExp at least
RECURSIVE BinaryExponent(_, _, _)
BinaryExponent(num, den, c) ==
    IF c <= MinExp THEN MinExp
    ELSE IF NatCmp(num, den) >= 0 THEN c
    ELSE BinaryExponent(NatMul(num, 2), den, c - 1)

\* the double nearest to num / den, which is below 2^(c + 53)
NearestDouble(neg, num, den, c) ==
    Nearest(neg, num, den,
            BinaryExponent(TimesPow2(num, 0 - (52 + c)), TimesPow2(den, 52 + c), c))

\* the double nearest to ds * 10^x, ds without leading zero.  Above 10^310
\* it is inf and below 10^-324 it is zero; a decimal of up to 15 digits well
\* inside the range of the normal doubles is the repr of its double.
ToDouble(neg, ds, x) ==
    IF ds = <<>> THEN Finite(neg, <<>>, 0)
    ELSE IF Len(ds) + x > 310 THEN Inf(neg)
    ELSE IF Len(ds) + x < 0 - 324 THEN Finite(neg, <<>>, 0)
    ELSE IF Len(ds) <= 15 /\ Len(ds) + x >= 0 - 290 /\ Len(ds) + x <= 290
    THEN Finite(neg, ds, x)
    ELSE NearestDouble(neg, TimesPow10(ds, x), TimesPow10(<<1>>, 0 - x),
                       ((Len(ds) + x - 1) * 3321928) \div 1000000 - 52 + 5)

\* the leading run of digits
DigitRun(s) ==
    IF \A i \in DOMAIN s : IsDigit(s[i]) THEN s
    ELSE SubSeq(s, 1, SetMin({i \in DOMAIN s : ~IsDigit(s[i])}) - 1)

\* the number a run of digits spells
DigitsValue(ds) == TrimZeros([i \in 1..Len(ds) |-> DigitValue(ds[i])])

\* the exponent a run of digits spells: past 10^8 the result is inf or zero
\* whatever the exponent
MaxExponent == 100000000

ExponentValue(ds) ==
    IF Len(DigitsValue(ds)) > 8 THEN MaxExponent ELSE IntOfNat(DigitsValue(ds))

\* an underscore is allowed only between two digits
UnderscoresOk(s) ==
    \A i \in 1..Len(s) :
        s[i] = 95 => /\ i > 1 /\ IsDigit(s[i - 1])
                     /\ i < Len(s) /\ IsDigit(s[i + 1])

\* The decimal literal after the sign: digits [. digits] [e [sign] digits],
\* with a digit before or after the point; the whole text must be used up.
\* ip, fp: the digits before and after the point; r: the text still to read.
DecimalValue(neg, ip, fp, ex) == ToDouble(neg, DigitsValue(ip \o fp), ex - Len(fp))

ExponentDigits(neg, ip, fp, expNeg, r) ==
    IF r = <<>> \/ DigitRun(r) # r THEN ValueError
    ELSE DecimalValue(neg, ip, fp, IF expNeg THEN 0 - ExponentValue(r) ELSE ExponentValue(r))

SignedExponent(neg, ip, fp, r) ==
    IF r # <<>> /\ Head(r) \in {43, 45}
    THEN ExponentDigits(neg, ip, fp, Head(r) = 45, Tail(r))
    ELSE ExponentDigits(neg, ip, fp, FALSE, r)

ExponentPart(neg, ip, fp, r) ==
    IF r = <<>> THEN DecimalValue(neg, ip, fp, 0)
    ELSE IF Head(r) \notin {101, 69} THEN ValueError
    ELSE SignedExponent(neg, ip, fp, Tail(r))

Mantissa(neg, ip, fp, r) ==
    IF Len(ip) + Len(fp) = 0 THEN ValueError
    ELSE ExponentPart(neg, ip, fp, SubSeq(r, Len(fp) + 1, Len(r)))

FractionPart(neg, ip, r) ==
    IF r # <<>> /\ Head(r) = Dot
    THEN Mantissa(neg, ip, DigitRun(Tail(r)), Tail(r))
    ELSE Mantissa(neg, ip, <<>>, r)

DecimalLiteralFrom(neg, ip, s) == FractionPart(neg, ip, SubSeq(s, Len(ip) + 1, Len(s)))

DecimalLiteral(neg, s) == DecimalLiteralFrom(neg, DigitRun(s), s)

\* ASCII letters in lower case, the other code points as they are
AsciiLower(s) == [i \in 1..Len(s) |-> IF s[i] \in 65..90 THEN s[i] + 32 ELSE s[i]]

\* "nan", "inf", "infinity" in any case, or a decimal literal
UnsignedFloat(neg, body) ==
    IF AsciiLower(body) = <<110, 97, 110>> THEN NaN
    ELSE IF AsciiLower(body) \in {<<105, 110, 102>>,
                                  <<105, 110, 102, 105, 110, 105, 116, 121>>}
    THEN Inf(neg)
    ELSE DecimalLiteral(neg, SelectSeq(body, LAMBDA c : c # 95))

SignedFloat(s) ==
    IF ~UnderscoresOk(s) THEN ValueError
    ELSE IF s # <<>> /\ Head(s) \in {43, 45} THEN UnsignedFloat(Head(s) = 45, Tail(s))
    ELSE UnsignedFloat(FALSE, s)

\* the whitespace float() drops at both ends: ASCII whitespace, and the
\* whitespace beyond ASCII (U+001C..U+001F are left, and refused)
IsFloatSpace(c) == IsSpace(c) /\ c \notin 28..31

FloatStrip(s) ==
    IF \A i \in DOMAIN s : IsFloatSpace(s[i]) THEN <<>>
    ELSE SubSeq(s, SetMin({i \in DOMAIN s : ~IsFloatSpace(s[i])}),
                SetMax({i \in DOMAIN s : ~IsFloatSpace(s[i])}))

float(str) == SignedFloat(FloatStrip(str))


---------------------------------------------------------------------------
(* parse_expense *)

\* the default category, U+043F U+0440 U+043E U+0447 U+0435 U+0435 ("prochee")
DefaultCategory == <<1087, 1088, 1086, 1095, 1077, 1077>>

None == [ok |-> FALSE]

\* a mutant of CategoryOf: a third part is dropped
CategoryOfHeadOnly(parts) == IF Len(parts) > 1 THEN parts[2] ELSE DefaultCategory

\* lines 51-54: the category of the parts
CategoryOf(parts) ==
    IF Len(parts) = 3 THEN parts[2] \o <<Space>> \o parts[3]
    ELSE IF Len(parts) > 1 THEN parts[2]
    ELSE DefaultCategory

\* a mutant of ParsedAmount: the category is returned as it was written
ParsedAmountAsWritten(parts, amount) ==
    IF amount.err THEN None
    ELSE [ok |-> TRUE, amount |-> amount, category |-> CategoryOf(parts)]

\* lines 47-55, amount being what float() gave
ParsedAmount(parts, amount) ==
    IF amount.err THEN None
    ELSE [ok |-> TRUE, amount |-> amount, category |-> lower(CategoryOf(parts))]

\* lines 45-55
ParsedParts(parts) ==
    IF parts = <<>> THEN None
    ELSE ParsedAmount(parts, float(replace(parts[1], Comma, Dot)))

parse_expense(text) == ParsedParts(split(strip(text), 2))

---------------------------------------------------------------------------
(* datetime: the proleptic Gregorian calendar of Python's datetime module. *)

DateTime(y, mo, d, h, mi, sec, us) ==
    [year |-> y, month |-> mo, day |-> d,
     hour |-> h, minute |-> mi, second |-> sec, microsecond |-> us]

IsLeap(y) == y % 4 = 0 /\ (y % 100 # 0 \/ y % 400 = 0)

DaysInMonth(y, m) ==
    IF m = 2 THEN (IF IsLeap(y) THEN 29 ELSE 28)
    ELSE IF m \in {4, 6, 9, 11} THEN 30 ELSE 31

DaysBeforeYear(y) ==
    LET p == y - 1 IN p * 365 + p \div 4 - p \div 100 + p \div 400

RECURSIVE DaysBeforeMonth(_, _)
DaysBeforeMonth(y, m) ==
    IF m = 1 THEN 0 ELSE DaysBeforeMonth(y, m - 1) + DaysInMonth(y, m - 1)

\* date.toordinal: day 1 is 0001-01-01
toordinal(dt) == DaysBeforeYear(dt.year) + DaysBeforeMonth(dt.year, dt.month) + dt.day

\* date.weekday: Monday is 0
weekday(dt) == (toordinal(dt) + 6) % 7

\* date.fromordinal, by the 400-, 100-, 4- and 1-year cycles; n counts the
\* days left, from 0, and yy is a year with the calendar of the year found
OrdDay(year, yy, month, n) ==
    IF DaysBeforeMonth(yy, month) > n
    THEN [year |-> year, month |-> month - 1,
          day |-> n - (DaysBeforeMonth(yy, month) - DaysInMonth(yy, month - 1)) + 1]
    ELSE [year |-> year, month |-> month, day |-> n - DaysBeforeMonth(yy, month) + 1]

OrdYear(year, n100, n4, n1, n) ==
    IF n1 = 4 \/ n100 = 4
    THEN [year |-> year - 1, month |-> 12, day |-> 31]
    ELSE OrdDay(year, IF n1 = 3 /\ (n4 # 24 \/ n100 = 3) THEN 2000 ELSE 2001,
                (n + 50) \div 32, n)

Ord1(year, n100, n4, n) == OrdYear(year + n \div 365, n100, n4, n \div 365, n % 365)

Ord4(year, n100, n) == Ord1(year + (n \div 1461) * 4, n100, n \div 1461, n % 1461)

Ord100(year, n) == Ord4(year + (n \div 36524) * 100, n \div 36524, n % 36524)

fromordinal(ord) == Ord100(((ord - 1) \div 146097) * 400 + 1, (ord - 1) % 146097)

WithDate(dt, d) == [dt EXCEPT !.year = d.year, !.month = d.month, !.day = d.day]

\* dt - timedelta(days=k): the date moves, the time of day stays
MinusDays(dt, k) == WithDate(dt, fromordinal(toordinal(dt) - k))

\* dt.replace(hour=0, minute=0, second=0, microsecond=0)
Midnight(dt) == [dt EXCEPT !.hour = 0, !.minute = 0, !.second = 0, !.microsecond = 0]

\* a <= b on aware datetimes of one time zone
DtLeq(a, b) ==
    IF a.year # b.year THEN a.year < b.year
    ELSE IF a.month # b.month THEN a.month < b.month
    ELSE IF a.day # b.day THEN a.day < b.day
    ELSE IF a.hour # b.hour THEN a.hour < b.hour
    ELSE IF a.minute # b.minute THEN a.minute < b.minute
    ELSE IF a.second # b.second THEN a.second < b.second
    ELSE a.microsecond <= b.microsecond

---------------------------------------------------------------------------
(* get_period_bounds *)

\* an optional str: None, or a text
PyNone == [none |-> TRUE, s |-> <<>>]
Str(s) == [none |-> FALSE, s |-> s]

\* "day", U+0441.. ("segodnya"), U+0434.. ("den")
KwDay == <<100, 97, 121>>
KwSegodnya == <<1089, 1077, 1075, 1086, 1076, 1085, 1103>>
\* "week", U+043D.. ("nedelya")
KwWeek == <<119, 101, 101, 107>>
KwNedelya == <<1085, 1077, 1076, 1077, 1083, 1103>>

DayAliases == {KwDay, KwSegodnya, <<1076, 1077, 1085, 1100>>}
WeekAliases == {KwWeek, KwNedelya}

\* a mutant of BoundsOf: the week is taken to start on Sunday
BoundsOfSundayWeek(p) ==
    IF p \in DayAliases THEN [start |-> Midnight(now), end |-> now]
    ELSE IF p \in WeekAliases
    THEN [start |-> Midnight(MinusDays(now, (weekday(now) + 1) % 7)), end |-> now]
    ELSE [start |-> Midnight([now EXCEPT !.day = 1]), end |-> now]

\* lines 60-72, p being the lower-cased period
BoundsOf(p) ==
    IF p \in DayAliases
    THEN [start |-> Midnight(now), end |-> now]
    ELSE IF p \in WeekAliases
    THEN [start |-> Midnight(MinusDays(now, weekday(now))), end |-> now]
    ELSE [start |-> Midnight([now EXCEPT !.day = 1]), end |-> now]

get_period_bounds(period) == BoundsOf(lower(IF period.none THEN <<>> ELSE period.s))

---------------------------------------------------------------------------
(* The expenses table and its three statements. *)

\* NUMERIC(12,2): twelve digits, two of them after the point
Precision == 12
Scale == 2

\* a numeric value with two digits after the point is a whole number of
\* hundredths (sign neg, size cents, a digit sequence), NaN, or (a query
\* result only) NULL
Signed(neg, cents) ==
    [null |-> FALSE, nan |-> FALSE, neg |-> neg /\ cents # <<>>, cents |-> cents]
Num(c) == Signed(c < 0, NatOfInt(IF c < 0 THEN 0 - c ELSE c))
SqlNaN == [null |-> FALSE, nan |-> TRUE, neg |-> FALSE, cents |-> <<>>]
SqlNull == [null |-> TRUE, nan |-> FALSE, neg |-> FALSE, cents |-> <<>>]

\* numeric addition: NaN absorbs
NumAdd(a, b) ==
    IF a.nan \/ b.nan THEN SqlNaN
    ELSE IF a.neg = b.neg THEN Signed(a.neg, NatAdd(a.cents, b.cents))
    ELSE IF NatCmp(a.cents, b.cents) >= 0 THEN Signed(a.neg, NatSub(a.cents, b.cents))
    ELSE Signed(b.neg, NatSub(b.cents, a.cents))

\* a >= b in the order of numeric: NaN is equal to NaN and above every number
NumGeq(a, b) ==
    \/ a.nan
    \/ /\ ~b.nan
       /\ IF a.neg # b.neg THEN b.neg
          ELSE IF a.neg THEN NatCmp(a.cents, b.cents) <= 0
          ELSE NatCmp(a.cents, b.cents) >= 0

\* a value coerced to NUMERIC(12,2): refused when it needs more than twelve
\* digits ("numeric field overflow")
CastNumeric(v) ==
    IF ~v.null /\ ~v.nan /\ Len(v.cents) > Precision THEN [err |-> TRUE]
    ELSE [err |-> FALSE, v |-> v]

\* m * 10^e in hundredths, rounded half away from zero
RoundedCents(m, e) ==
    IF e >= 0 - Scale THEN TimesPow10(m, e + Scale)
    ELSE IF Len(m) + e + Scale < 0 THEN <<>>
    ELSE IF m[Len(m) + e + Scale + 1] >= 5
    THEN NatAdd(SubSeq(m, 1, Len(m) + e + Scale), <<1>>)
    ELSE SubSeq(m, 1, Len(m) + e + Scale)

\* the float as psycopg2 writes it into the statement (its repr) and as
\* PostgreSQL coerces it to NUMERIC(12,2): NaN is kept, an infinity is
\* refused, a number is rounded and then refused if it needs more than
\* twelve digits
FiniteToNumeric(amount) == CastNumeric(Signed(amount.neg, RoundedCents(amount.m, amount.e)))

ToNumeric(amount) ==
    IF amount.kind = "nan" THEN [err |-> FALSE, v |-> SqlNaN]
    ELSE IF amount.kind = "inf" THEN [err |-> TRUE]
    ELSE FiniteToNumeric(amount)

\* CREATE TABLE IF NOT EXISTS expenses (...); dbUp: whether the database
\* answers
CreateTableIfNotExists(exists, rows, dbUp) ==
    [err |-> ~dbUp, exists |-> dbUp \/ exists, rows |-> IF exists THEN rows ELSE <<>>]

\* a str psycopg2 can write into a statement: no NUL, and no surrogate
\* (U+D800..U+DFFF), which UTF-8 cannot encode
IsSqlText(s) == \A i \in DOMAIN s : s[i] # 0 /\ s[i] \notin 55296..57343

\* INSERT INTO expenses (user_id, amount, category) VALUES (%s, %s, %s):
\* one row with the next id and created_at = NOW(), or an error and no row.
\* a: the amount as NUMERIC(12,2); dbUp: whether the database answers.
InsertRow(user_id, a, category, dbUp) ==
    IF ~dbUp \/ ~tableExists \/ a.err \/ ~IsSqlText(category)
    THEN [err |-> TRUE, rows |-> expenses, nextId |-> nextId]
    ELSE [err |-> FALSE,
          rows |-> Append(expenses, [id |-> nextId, user_id |-> user_id,
                                     amount |-> a.v, category |-> category,
                                     created_at |-> now]),
          nextId |-> nextId + 1]

InsertExpense(user_id, amount, category, dbUp) ==
    InsertRow(user_id, ToNumeric(amount), category, dbUp)

\* a mutant of InWindow: the end of the interval is left out
InWindowOpenEnd(r, user_id, start, end) ==
    /\ r.user_id = user_id
    /\ DtLeq(start, r.created_at)
    /\ DtLeq(r.created_at, end) /\ r.created_at # end

\* WHERE user_id = %s AND created_at >= %s AND created_at <= %s
InWindow(r, user_id, start, end) ==
    /\ r.user_id = user_id
    /\ DtLeq(start, r.created_at)
    /\ DtLeq(r.created_at, end)

Selected(user_id, start, end) ==
    SelectSeq(expenses, LAMBDA r : InWindow(r, user_id, start, end))

\* SUM(amount): NULL over no rows
RECURSIVE SumAmount(_)
SumAmount(rs) ==
    IF rs = <<>> THEN SqlNull
    ELSE IF Len(rs) = 1 THEN rs[1].amount
    ELSE NumAdd(rs[1].amount, SumAmount(Tail(rs)))

\* a mutant of Coalesce: the first value is returned even when it is NULL
CoalesceMissing(x, y) == x

\* COALESCE(x, y)
Coalesce(x, y) == IF x.null THEN y ELSE x

\* GROUP BY category with SUM(amount) AS total
GroupByCategory(rs) ==
    {[category |-> c, total |-> SumAmount(SelectSeq(rs, LAMBDA r : r.category = c))] :
        c \in {rs[i].category : i \in DOMAIN rs}}

\* ORDER BY total DESC: every listing of the groups with the totals
\* non-increasing; groups of equal total come in the order the engine likes
OrderByTotalDesc(groups) ==
    {rows \in [1..Cardinality(groups) -> groups] :
        /\ \A i, j \in DOMAIN rows : i # j => rows[i] # rows[j]
        /\ \A i, j \in DOMAIN rows : i < j => NumGeq(rows[i].total, rows[j].total)}

\* SUM(amount)::numeric(12,2) of every group: the statement fails when one
\* of the casts does
TotalsOf(groups) ==
    IF \E g \in groups : CastNumeric(g.total).err THEN [err |-> TRUE]
    ELSE [err |-> FALSE, listings |-> OrderByTotalDesc(groups)]

\* the first statement of stats: an error, or the listings it may return
SelectTotals(user_id, start, end) ==
    TotalsOf(GroupByCategory(Selected(user_id, start, end)))

\* the second statement of stats: an error, or the grand total v
SelectGrandTotal(user_id, start, end) ==
    CastNumeric(Coalesce(SumAmount(Selected(user_id, start, end)), Num(0)))

---------------------------------------------------------------------------
(* The handlers.  A handler's outcome: the replies it sent, in order, and  *)
(* whether an exception left it.                                           *)

ReplyWelcome == [kind |-> "welcome"]
ReplyHelp == [kind |-> "help"]
ReplyFormat == [kind |-> "format"]
ReplyAdded(amount, category) == [kind |-> "added", amount |-> amount, category |-> category]
ReplyNoExpenses(period_name) == [kind |-> "no_expenses", period_name |-> period_name]
ReplyStats(period_name, rows, grand_total) ==
    [kind |-> "stats", period_name |-> period_name, rows |-> rows,
     grand_total |-> grand_total]

\* U+043C.. ("mesyats"), the name of the default period
KwMesyats == <<1084, 1077, 1089, 1103, 1094>>

\* What becomes of update.message.reply_text in a handler.  "sent": the reply
\* is sent.  "refused": the call raises (Telegram is not reached, the user has
\* blocked the bot, the text is too long).  "edited": the update is an edited
\* message, which the handlers of lines 165-168 receive as well, and its
\* .message is None: reading an attribute of it raises AttributeError.
Telegram == {"sent", "refused", "edited"}

\* await update.message.reply_text(...): the replies sent, and whether an
\* exception leaves the handler
Reply(tg, reply) ==
    IF tg = "sent" THEN [raised |-> FALSE, replies |-> <<reply>>]
    ELSE [raised |-> TRUE, replies |-> <<>>]

start(user_id, tg) == Reply(tg, ReplyWelcome)

help_cmd(user_id, tg) == Reply(tg, ReplyHelp)

\* a mutant of AfterInsert: the confirmation is sent whatever the INSERT did
AfterInsertConfirmAlways(parsed, ins, tg) ==
    [raised |-> FALSE, replies |-> <<ReplyAdded(parsed.amount, parsed.category)>>,
     rows |-> ins.rows, nextId |-> ins.nextId,
     insert |-> IF ins.err THEN "failed" ELSE "done"]

\* line 114, ins being what the INSERT of lines 108-112 did: the row is
\* written (autocommit, line 26) before the confirmation is sent, and stays
\* when the sending raises
AfterInsert(parsed, ins, tg) ==
    IF ins.err
    THEN [raised |-> TRUE, replies |-> <<>>, rows |-> expenses, nextId |-> nextId,
          insert |-> "failed"]
    ELSE Reply(tg, ReplyAdded(parsed.amount, parsed.category))
             @@ [rows |-> ins.rows, nextId |-> ins.nextId, insert |-> "done"]

\* lines 102-114, parsed being what parse_expense gave
AfterParse(user_id, parsed, dbUp, tg) ==
    IF ~parsed.ok
    THEN Reply(tg, ReplyFormat) @@ [rows |-> expenses, nextId |-> nextId, insert |-> "none"]
    ELSE AfterInsert(parsed, InsertExpense(user_id, parsed.amount, parsed.category, dbUp), tg)

\* lines 99-114.  msg: the text of the message; line 100 raises for an edited
\* message, before the text is read.  insert: whether the INSERT was not
\* reached ("none"), failed or was done.
add_expense(user_id, msg, dbUp, tg) ==
    IF tg = "edited"
    THEN [raised |-> TRUE, replies |-> <<>>, rows |-> expenses, nextId |-> nextId,
          insert |-> "none"]
    ELSE AfterParse(user_id, parse_expense(msg), dbUp, tg)

\* line 118
PeriodArg(args) == IF args # <<>> THEN Str(join(args)) ELSE PyNone

\* lines 145-149: period_name
PeriodName(period_arg) ==
    IF period_arg.none \/ period_arg.s = <<>> THEN KwMesyats
    ELSE IF lower(period_arg.s) \in DayAliases THEN KwSegodnya
    ELSE IF lower(period_arg.s) \in WeekAliases THEN KwNedelya
    ELSE KwMesyats

\* lines 151-159
StatsReplies(period_name, rows, grand_total) ==
    IF rows = <<>>
    THEN <<ReplyNoExpenses(period_name)>>
    ELSE <<ReplyStats(period_name, rows, grand_total)>>

StatsOutcome(b, period_name, rows, grand_total) ==
    [raised |-> FALSE, start |-> b.start, end |-> b.end,
     rows |-> rows, grand_total |-> grand_total,
     replies |-> StatsReplies(period_name, rows, grand_total)]

\* lines 122-159 for the bounds b: the possible outcomes, one for each listing
\* the first statement may return.  failAt: the statement (1 or 2) at which
\* the database stops answering, 0 for neither; t, g: what the two
\* statements give when it answers; tg: what becomes of the reply, the one
\* place where stats reads update.message (lines 152, 159).
StatsWith(b, period_name, failAt, t, g, tg) ==
    IF failAt # 0 \/ ~tableExists \/ t.err \/ g.err \/ tg # "sent"
    THEN {[raised |-> TRUE, replies |-> <<>>, start |-> b.start, end |-> b.end]}
    ELSE {StatsOutcome(b, period_name, rows, g.v) : rows \in t.listings}

StatsIn(user_id, b, period_name, failAt, tg) ==
    StatsWith(b, period_name, failAt, SelectTotals(user_id, b.start, b.end),
              SelectGrandTotal(user_id, b.start, b.end), tg)

StatsFor(user_id, period_arg, failAt, tg) ==
    StatsIn(user_id, get_period_bounds(period_arg), PeriodName(period_arg), failAt, tg)

stats(user_id, args, failAt, tg) == StatsFor(user_id, PeriodArg(args), failAt, tg)

\* lines 29-40: err, whether the exception of the statement leaves init_db
init_db(dbUp) == CreateTableIfNotExists(tableExists, expenses, dbUp)

---------------------------------------------------------------------------
(* The bot: events arrive one at a time and each is handled to its end.   *)

Users == {1, 2}

\* the text messages: "10 Eda" (U+0415 U+0434 U+0430), "4,995 eda",
\* "9e9 A OS" (U+0391, then U+039F U+03A3: alpha, omicron and sigma), "nan",
\* "1e10 x", "abc food", "   "
Messages ==
    { <<49, 48, 32, 1045, 1076, 1072>>,
      <<52, 44, 57, 57, 53, 32, 1077, 1076, 1072>>,
      <<57, 101, 57, 32, 913, 32, 927, 931>>,
      <<110, 97, 110>>,
      <<49, 101, 49, 48, 32, 120>>,
      <<97, 98, 99, 32, 102, 111, 111, 100>>,
      <<32, 32, 32>> }

\* the words after /stats: none, "Den" (U+0414..), "Week", "year"
StatsArgs ==
    { <<>>,
      <<(<<1044, 1077, 1085, 1100>>)>>,
      <<(<<87, 101, 101, 107>>)>>,
      <<(<<121, 101, 97, 114>>)>> }

\* the clock starts at midnight of Monday 2024-09-30 (UTC), the last day of
\* its month
Epoch == DateTime(2024, 9, 30, 0, 0, 0, 0)

\* the number of days from Epoch to dt
RECURSIVE DaysSince(_)
DaysSince(dt) == IF dt = Epoch THEN 0 ELSE 1 + DaysSince(MinusDays(dt, 1))

NoOutcome == [handler |-> "none"]
NotRun == [run |-> FALSE]

Init ==
    /\ pc = "boot"
    /\ tableExists = FALSE
    /\ expenses = <<>>
    /\ nextId = 1
    /\ senders = <<>>
    /\ now = Epoch
    /\ out = NoOutcome
    /\ input = <<>>
    /\ output = NotRun

\* lines 25-26, run when the module is loaded, before main(): err, whether
\* psycopg2.connect raises; up: whether the database accepts the connection
conn(up) == [err |-> ~up]

MainDone(r, dbUp) ==
    /\ pc' = IF r.err THEN "boot" ELSE "polling"
    /\ tableExists' = r.exists
    /\ expenses' = r.rows
    /\ senders' = SubSeq(senders, 1, Len(r.rows))
    /\ out' = [handler |-> "init_db", raised |-> r.err, replies |-> <<>>,
               dbUp |-> dbUp]

\* The process starts, or starts again: the connection is opened (line 25)
\* and main() runs init_db; polling begins when init_db returns, and the
\* process ends when the connection is refused or init_db raises.  connUp,
\* dbUp: whether the database accepts the connection, and whether it then
\* answers the statement of init_db.
Main(connUp, dbUp) ==
    /\ IF conn(connUp).err
       THEN /\ pc' = "boot"
            /\ out' = [handler |-> "conn", raised |-> TRUE, replies |-> <<>>]
            /\ UNCHANGED <<tableExists, expenses, senders>>
       ELSE MainDone(init_db(dbUp), dbUp)
    /\ UNCHANGED <<nextId, now, input, output>>

Start(u, tg) ==
    /\ pc = "polling"
    /\ out' = [handler |-> "start"] @@ start(u, tg)
    /\ UNCHANGED <<pc, tableExists, expenses, nextId, senders, now, input, output>>

Help(u, tg) ==
    /\ pc = "polling"
    /\ out' = [handler |-> "help_cmd"] @@ help_cmd(u, tg)
    /\ UNCHANGED <<pc, tableExists, expenses, nextId, senders, now, input, output>>

AddExpenseDone(u, msg, r) ==
    /\ Len(r.rows) <= MaxRecords
    /\ expenses' = r.rows
    /\ nextId' = r.nextId
    /\ senders' = IF Len(r.rows) > Len(expenses) THEN Append(senders, u) ELSE senders
    /\ out' = [handler |-> "add_expense", user |-> u, text |-> msg,
               raised |-> r.raised, replies |-> r.replies, insert |-> r.insert]

AddExpense(u, msg, dbUp, tg) ==
    /\ pc = "polling"
    /\ AddExpenseDone(u, msg, add_expense(u, msg, dbUp, tg))
    /\ UNCHANGED <<pc, tableExists, now, input, output>>

Stats(u, args, failAt, tg) ==
    /\ pc = "polling"
    /\ \E r \in stats(u, args, failAt, tg) :
           out' = [handler |-> "stats", user |-> u, args |-> args] @@ r
    /\ UNCHANGED <<pc, tableExists, expenses, nextId, senders, now, input, output>>

\* time passes between two events: one day
Tick ==
    /\ DaysSince(now) < MaxTick
    /\ now' = MinusDays(now, 0 - 1)
    /\ out' = NoOutcome
    /\ UNCHANGED <<pc, tableExists, expenses, nextId, senders, input, output>>

\* One fault at a time: a statement that fails raises before the reply is
\* reached, so what becomes of the reply then changes nothing.
Next ==
    \/ \E connUp \in BOOLEAN, dbUp \in BOOLEAN : Main(connUp, dbUp)
    \/ \E u \in Users, tg \in Telegram : Start(u, tg)
    \/ \E u \in Users, tg \in Telegram : Help(u, tg)
    \/ \E u \in Users, msg \in Messages, dbUp \in BOOLEAN :
           \E tg \in (IF dbUp THEN Telegram ELSE {"sent"}) : AddExpense(u, msg, dbUp, tg)
    \/ \E u \in Users, args \in StatsArgs, failAt \in 0..2 :
           \E tg \in (IF failAt = 0 THEN Telegram ELSE {"sent"}) : Stats(u, args, failAt, tg)
    \/ Tick

Spec == Init /\ [][Next]_vars

---------------------------------------------------------------------------
(* parse_expense on its own, over every text of at most MaxLen characters  *)
(* of "1", "0", U+0665 (the Arabic-Indic digit five), ",", ".", space, tab, *)
(* "a", "N".                                                               *)

Alphabet == {49, 48, 1637, 44, 46, 32, 9, 97, 78}

Texts == UNION {[1..n -> Alphabet] : n \in 0..MaxLen}

InitParse ==
    /\ input \in Texts
    /\ output = NotRun
    /\ pc = "boot" /\ tableExists = FALSE /\ expenses = <<>> /\ nextId = 1
    /\ senders = <<>> /\ now = Epoch /\ out = NoOutcome

ParseStep ==
    /\ output = NotRun
    /\ output' = [run |-> TRUE, result |-> parse_expense(input)]
    /\ UNCHANGED <<pc, tableExists, expenses, nextId, senders, now, out, input>>

SpecParse == InitParse /\ [][ParseStep]_vars

---------------------------------------------------------------------------
(* get_period_bounds on its own, at every day of NumYears years and four   *)
(* times of the day, for a choice of period arguments.                     *)

TimesOfDay == {<<0, 0, 0, 0>>, <<0, 0, 0, 1>>, <<12, 34, 56, 789000>>, <<23, 59, 59, 999999>>}

Nows ==
    {DateTime(y, m, d, t[1], t[2], t[3], t[4]) :
        y \in FirstYear..(FirstYear + NumYears - 1), m \in 1..12, d \in 1..31, t \in TimesOfDay}

\* None, "", "day", "DAY", "Den", "segodnya", "week", "wee" with U+212A (the
\* Kelvin sign, whose lower case is "k"), "Nedelya", "month", "day x"
PeriodInputs ==
    { PyNone,
      Str(<<>>),
      Str(KwDay),
      Str(<<68, 65, 89>>),
      Str(<<1044, 1077, 1085, 1100>>),
      Str(KwSegodnya),
      Str(KwWeek),
      Str(<<119, 101, 101, 8490>>),
      Str(<<1053, 1077, 1076, 1077, 1083, 1103>>),
      Str(<<109, 111, 110, 116, 104>>),
      Str(<<100, 97, 121, 32, 120>>) }

InitPeriod ==
    /\ now \in {n \in Nows : n.day <= DaysInMonth(n.year, n.month)}
    /\ input \in PeriodInputs
    /\ output = NotRun
    /\ pc = "boot" /\ tableExists = FALSE /\ expenses = <<>> /\ nextId = 1
    /\ senders = <<>> /\ out = NoOutcome

PeriodStep ==
    /\ output = NotRun
    /\ output' = [run |-> TRUE, result |-> get_period_bounds(input)]
    /\ UNCHANGED <<pc, tableExists, expenses, nextId, senders, now, out, input>>

SpecPeriod == InitPeriod /\ [][PeriodStep]_vars

---------------------------------------------------------------------------
(* Properties. *)

\* the handlers of inbound events
EventHandlers == {"start", "help_cmd", "stats", "add_expense"}

\* the trimmed text is empty, or float() refuses its first token once
\* ',' is replaced by '.'
Unparseable(text) ==
    \/ strip(text) = <<>>
    \/ float(replace(split(strip(text), 2)[1], Comma, Dot)).err

\* C1: a text message whose trimmed text is empty or whose first token does
\* not parse as a number is rejected by parse_expense, and add_expense then
\* leaves the expenses table as it was, raises nothing and replies with the
\* format reminder, once.
C1_RejectedTextWritesNothing ==
    [][(out'.handler = "add_expense" /\ Unparseable(out'.text))
         => /\ parse_expense(out'.text) = None
            /\ expenses' = expenses
            /\ ~out'.raised
            /\ out'.replies = <<ReplyFormat>>]_vars

\* a plain decimal: digits, or digits, one ',' or '.', digits
IsDecimalString(a) ==
    /\ a # <<>>
    /\ \A i \in DOMAIN a : IsDigit(a[i]) \/ a[i] \in {Comma, Dot}
    /\ Cardinality({i \in DOMAIN a : ~IsDigit(a[i])}) <= 1
    /\ IsDigit(a[1]) /\ IsDigit(a[Len(a)])

\* its value: the double nearest to the digits, shifted by the number of
\* digits after the separator
DecimalStringValue(a) ==
    LET seps == {i \in DOMAIN a : ~IsDigit(a[i])}
        frac == IF seps = {} THEN 0 ELSE Len(a) - (CHOOSE i \in seps : TRUE)
    IN ToDouble(FALSE, DigitsValue(SelectSeq(a, IsDigit)), 0 - frac)

\* a category text: not empty, no whitespace at either end
IsCategoryText(cat) == cat # <<>> /\ ~IsSpace(cat[1]) /\ ~IsSpace(cat[Len(cat)])

\* the first word of cat is all of it, or is followed by exactly one space
FirstGapIsOneSpace(cat) ==
    \/ WordLen(cat) = Len(cat)
    \/ cat[WordLen(cat) + 1] = Space /\ ~IsSpace(cat[WordLen(cat) + 2])

\* input is "{a} {cat}" for a = its first k - 1 characters
SplitsAt(k) ==
    /\ input[k] = Space
    /\ IsDecimalString(SubSeq(input, 1, k - 1))
    /\ IsCategoryText(SubSeq(input, k + 1, Len(input)))

ParsedAs(a, category) ==
    output.result = [ok |-> TRUE, amount |-> DecimalStringValue(a), category |-> category]

\* C2 as claimed: for every decimal string a and ANY category text cat,
\* parse_expense("{a} {cat}") is (value of a, lowercase(cat)), and a alone
\* gives the default category.
C2_AnyCategoryText ==
    output.run =>
        /\ IsDecimalString(input) => ParsedAs(input, DefaultCategory)
        /\ \A k \in DOMAIN input :
               SplitsAt(k) => ParsedAs(SubSeq(input, 1, k - 1),
                                       lower(SubSeq(input, k + 1, Len(input))))

\* C2 as amended: for every decimal string a and every category text cat whose
\* first two words are separated by exactly one space, parse_expense("{a} {cat}")
\* is (value of a, lowercase(cat)); a alone gives the default category.
C2_SingleSpacedCategory ==
    output.run =>
        /\ IsDecimalString(input) => ParsedAs(input, DefaultCategory)
        /\ \A k \in DOMAIN input :
               (SplitsAt(k) /\ FirstGapIsOneSpace(SubSeq(input, k + 1, Len(input))))
                   => ParsedAs(SubSeq(input, 1, k - 1),
                               lower(SubSeq(input, k + 1, Len(input))))

\* C2 witness: "1 a N" was parsed as (1, "a n")
C2_Witness ==
    /\ output.run
    /\ \E k \in DOMAIN input :
           /\ SplitsAt(k)
           /\ FirstGapIsOneSpace(SubSeq(input, k + 1, Len(input)))
           /\ WordLen(SubSeq(input, k + 1, Len(input))) < Len(input) - k
           /\ \E i \in DOMAIN input : input[i] = 78
    /\ output.result.ok
    /\ \E i \in DOMAIN output.result.category : output.result.category[i] = Space

\* C3: the amount parse_expense returns for a text message is a finite
\* number, and no row of the table holds an amount that is not a number.
C3_AmountsFinite ==
    /\ \A i \in DOMAIN expenses : ~expenses[i].amount.nan
    /\ (out.handler = "add_expense" /\ parse_expense(out.text).ok)
           => parse_expense(out.text).amount.kind = "fin"

\* C4: every row of the table has a category that is not empty and is equal
\* to its own lower-casing, and the user_id of the user whose message
\* created it.
C4_CategoryAndUser ==
    \A i \in DOMAIN expenses :
        /\ expenses[i].category # <<>>
        /\ lower(expenses[i].category) = expenses[i].category
        /\ expenses[i].user_id = senders[i]

\* C4 witness: two rows of different users, with the category of "9e9 A OS"
\* (two words joined by one space: small alpha, small omicron, final small
\* sigma) and the default category, given to the lone token "nan"
C4_Witness ==
    /\ Len(expenses) = 2
    /\ expenses[1].user_id # expenses[2].user_id
    /\ expenses[1].category = <<945, 32, 959, 962>>
    /\ expenses[2].category = DefaultCategory
    /\ out.handler = "add_expense"
    /\ out.text = <<110, 97, 110>>

\* the rows of user u created within [start, end], both ends included
RowsIn(u, from, to) ==
    {i \in DOMAIN expenses :
        /\ expenses[i].user_id = u
        /\ DtLeq(from, expenses[i].created_at)
        /\ DtLeq(expenses[i].created_at, to)}

\* the sum of the amounts of the rows S, zero for none
RECURSIVE AmountOf(_)
AmountOf(S) ==
    IF S = {} THEN Num(0)
    ELSE LET i == CHOOSE i \in S : TRUE
         IN NumAdd(expenses[i].amount, AmountOf(S \ {i}))

StatsAnswered == out.handler = "stats" /\ ~out.raised

\* C5: the listing of /stats has exactly one row for each category among the
\* rows of the user within [start, end], both ends included, and no other;
\* a row's total is the sum of the amounts of exactly those rows of its
\* category; and the totals do not increase along the listing.
C5_Aggregate ==
    StatsAnswered =>
        /\ {out.rows[k].category : k \in DOMAIN out.rows}
               = {expenses[i].category : i \in RowsIn(out.user, out.start, out.end)}
        /\ \A k, l \in DOMAIN out.rows :
               k # l => out.rows[k].category # out.rows[l].category
        /\ \A k \in DOMAIN out.rows :
               out.rows[k].total =
                   AmountOf({i \in RowsIn(out.user, out.start, out.end) :
                                expenses[i].category = out.rows[k].category})
        /\ \A k, l \in DOMAIN out.rows :
               k < l => NumGeq(out.rows[k].total, out.rows[l].total)

\* C5 witness: /stats week gave one row of total 15.00, summed over a row
\* created at the start of the interval and a row created at its end, and
\* /stats day at the same instant would leave the first of them out
C5_Witness ==
    /\ StatsAnswered
    /\ RowsIn(out.user, Midnight(now), now) = {2}
    /\ Len(expenses) = 2
    /\ out.rows = <<[category |-> <<1077, 1076, 1072>>, total |-> Num(1500)]>>
    /\ expenses[1].created_at = out.start
    /\ expenses[2].created_at = out.end
    /\ out.start # out.end

\* the period arguments of PeriodInputs that are aliases of "day", of "week"
DayInputs ==
    {Str(KwDay), Str(<<68, 65, 89>>), Str(<<1044, 1077, 1085, 1100>>), Str(KwSegodnya)}
WeekInputs ==
    {Str(KwWeek), Str(<<119, 101, 101, 8490>>), Str(<<1053, 1077, 1076, 1077, 1083, 1103>>)}

IsMidnight(dt) == dt.hour = 0 /\ dt.minute = 0 /\ dt.second = 0 /\ dt.microsecond = 0

SameDate(a, b) == a.year = b.year /\ a.month = b.month /\ a.day = b.day

\* Zeller's congruence: 0 for Saturday, 1 for Sunday, 2 for Monday
Zeller(y, m, d) ==
    LET yy == IF m < 3 THEN y - 1 ELSE y
        mm == IF m < 3 THEN m + 12 ELSE m
    IN (d + ((13 * (mm + 1)) \div 5) + (yy % 100) + ((yy % 100) \div 4)
          + ((yy \div 100) \div 4) + (5 * (yy \div 100))) % 7

IsMonday(dt) == Zeller(dt.year, dt.month, dt.day) = 2

\* the day after, by the calendar
NextDay(dt) ==
    IF dt.day < DaysInMonth(dt.year, dt.month) THEN [dt EXCEPT !.day = @ + 1]
    ELSE IF dt.month < 12 THEN [dt EXCEPT !.month = @ + 1, !.day = 1]
    ELSE [dt EXCEPT !.year = @ + 1, !.month = 1, !.day = 1]

RECURSIVE DaysAfter(_, _)
DaysAfter(dt, k) == IF k = 0 THEN dt ELSE DaysAfter(NextDay(dt), k - 1)

\* C6: get_period_bounds returns end = now and start <= end, start being
\* midnight of now's day for a "day" alias in any case, midnight of a Monday
\* at most six days before now's day for a "week" alias, and midnight of
\* day 1 of now's month for no keyword and for any other keyword.
C6_PeriodBounds ==
    output.run =>
        /\ output.result.end = now
        /\ DtLeq(output.result.start, output.result.end)
        /\ IsMidnight(output.result.start)
        /\ input \in DayInputs => SameDate(output.result.start, now)
        /\ input \in WeekInputs =>
               /\ IsMonday(output.result.start)
               /\ \E k \in 0..6 : SameDate(DaysAfter(output.result.start, k), now)
        /\ input \notin (DayInputs \cup WeekInputs) =>
               /\ output.result.start.year = now.year
               /\ output.result.start.month = now.month
               /\ output.result.start.day = 1

\* C6 witness: "Nedelya" on a day whose week began in the year before
C6_Witness ==
    /\ output.run
    /\ input = Str(<<1053, 1077, 1076, 1077, 1083, 1103>>)
    /\ output.result.start.year < now.year
    /\ ~IsMidnight(now)

\* C7: whatever the inbound event and whether or not a statement fails, its
\* handler sends exactly one reply.
C7_OneReplyPerEvent == out.handler \in EventHandlers => Len(out.replies) = 1

\* C8: a row once inserted stays in the table as it is; /stats, /start,
\* /help and init_db leave the table as it was; and init_db on an existing
\* table raises nothing.
C8_SecondInitNeverRaises ==
    [][/\ Len(expenses') >= Len(expenses)
       /\ \A i \in DOMAIN expenses : expenses'[i] = expenses[i]
       /\ out'.handler \in {"stats", "start", "help_cmd", "init_db"} => expenses' = expenses
       /\ (out'.handler = "init_db" /\ tableExists) => ~out'.raised]_vars

RECURSIVE SumOfTotals(_)
SumOfTotals(rows) ==
    IF rows = <<>> THEN Num(0) ELSE NumAdd(rows[1].total, SumOfTotals(Tail(rows)))

\* C9: in a /stats result the grand total is the sum of the totals of the
\* listing; and when no row of the user lies in the interval the listing is
\* empty, the grand total is 0.00 and not null, and the reply is the
\* no-expenses message.
C9_GrandTotal ==
    StatsAnswered =>
        /\ out.grand_total = SumOfTotals(out.rows)
        /\ ~out.grand_total.null
        /\ RowsIn(out.user, out.start, out.end) = {} =>
               /\ out.rows = <<>>
               /\ out.grand_total = Num(0)
               /\ Len(out.replies) = 1
               /\ out.replies[1].kind = "no_expenses"

\* C9 witness: a listing of two rows, 9000000000.00 and 10.00, and a grand
\* total of 9000000010.00
C9_Witness ==
    /\ StatsAnswered
    /\ Len(out.rows) = 2
    /\ out.rows[1].total = Signed(FALSE, <<9>> \o Zeros(11))
    /\ out.rows[2].total = Num(1000)
    /\ out.grand_total = Signed(FALSE, <<9, 0, 0, 0, 0, 0, 0, 0, 1, 0, 0, 0>>)

\* the event just handled was a text message that parses
ParsedMessage(o) == o.handler = "add_expense" /\ parse_expense(o.text).ok

Confirmed(o) == \E i \in DOMAIN o.replies : o.replies[i].kind = "added"

\* C10: for a text message that parses, the confirmation is sent only with
\* exactly one row inserted for it, holding the parsed amount and category and
\* the sender's user_id, and is then the only reply; an INSERT that was done
\* leaves exactly that one row, confirmed or not; an INSERT that failed leaves
\* the table as it was, sends nothing and lets the exception out of
\* add_expense; and whenever no confirmation is sent an exception leaves
\* add_expense, nothing is sent and at most the one row is written.
C10_ConfirmedIffWritten ==
    [][ParsedMessage(out') =>
          /\ Confirmed(out') => (~out'.raised /\ Len(out'.replies) = 1 /\ out'.insert = "done")
          /\ out'.insert = "done" =>
               /\ Len(expenses') = Len(expenses) + 1
               /\ SubSeq(expenses', 1, Len(expenses)) = expenses
               /\ expenses'[Len(expenses')].user_id = out'.user
               /\ expenses'[Len(expenses')].category = parse_expense(out'.text).category
               /\ expenses'[Len(expenses')].amount = ToNumeric(parse_expense(out'.text).amount).v
               /\ expenses'[Len(expenses')].created_at = now
          /\ out'.insert # "done" => (expenses' = expenses /\ ~Confirmed(out'))
          /\ out'.insert = "failed" => (out'.raised /\ out'.replies = <<>>)
          /\ ~Confirmed(out') => (out'.raised /\ out'.replies = <<>>)]_vars

\* C10 witness: the INSERT for "10 Eda" failed on a table of one row
C10_Witness ==
    /\ out.handler = "add_expense"
    /\ out.text = <<49, 48, 32, 1045, 1076, 1072>>
    /\ out.insert = "failed"
    /\ out.raised
    /\ out.replies = <<>>
    /\ Len(expenses) = 1

====
